---------------------------- MODULE Spec2Model ----------------------------
(***************************************************************************)
(* Model of src/Home.py: the microphone frame collector (AudioProcessor),  *)
(* the "Process Mic Recording" handler that snapshots it, the file-upload  *)
(* branch, the five-stage cleaning run (process_and_display) and the       *)
(* normalize_audio helper.                                                 *)
(*                                                                         *)
(* An audio array is modelled by the identities of its samples.  A sample  *)
(* of the capture stream is identified by its position in the stream       *)
(* (1, 2, 3, ...), and an array is the run-length encoding of the sequence *)
(* of its sample identities: a sequence of runs [lo, hi] of consecutive    *)
(* identities, in which no two neighbouring runs are contiguous.  Two      *)
(* arrays hold the same samples in the same order iff their encodings are  *)
(* equal, which lets the model keep the program's own constants            *)
(* (sr = 48000, 2 s, 10 s).                                                *)
(***************************************************************************)
EXTENDS Integers, Sequences, FiniteSets, TLC

VARIABLES
    input_method,     \* st.radio value: "mic" or "upload"
    playing,          \* webrtc_ctx.state.playing
    audio_processor,  \* webrtc_ctx.audio_processor is not None
    frames,           \* AudioProcessor.frames of the newest processor object
    delivered,        \* samples the device has handed to recv in this session
    recv_pc,          \* position of the capture thread inside recv
    recv_audio,       \* recv's local `audio`
    recv_stale,       \* the recv in flight belongs to a replaced processor
    script_pc,        \* position of the script thread
    raw_audio,        \* local raw_audio of the mic branch
    audio,            \* local audio of process_and_display
    shown_original,   \* what the "Original Audio" widgets were given
    shown_cleaned,    \* what the "Cleaned Audio" widgets were given
    warning,          \* text of st.warning, "" when none
    exception,        \* uncaught exception of the script run, "" when none
    n_in,             \* normalize_audio: the argument
    n_out,            \* normalize_audio: result of the first application
    n_again,          \* normalize_audio: result of applying it to n_out
    n_pc              \* normalize_audio check: "idle", "in", "once", "twice"

vars == <<input_method, playing, audio_processor, frames, delivered, recv_pc,
          recv_audio, recv_stale, script_pc, raw_audio, audio, shown_original,
          shown_cleaned, warning, exception, n_in, n_out, n_again, n_pc>>

micVars == <<input_method, playing, audio_processor, frames, delivered,
             recv_pc, recv_audio, recv_stale, script_pc, raw_audio, audio,
             shown_original, shown_cleaned, warning, exception>>

normVars == <<n_in, n_out, n_again, n_pc>>

---------------------------------------------------------------------------
(* Program constants *)

sr == 48000

MinSeconds == 2

WindowSeconds == 10

(* Bounds of the model *)

MaxFrames == 4

MaxLen == 2

\* Sizes, in samples, of the frames the capture device delivers.
ChunkLens == {30000, 96000, 192000}

\* Sizes, in samples, of the decoded uploads.
UploadLens == {0, 144000, 600000}

---------------------------------------------------------------------------
(* Arrays of samples *)

Min(a, b) == IF a < b THEN a ELSE b

Run(lo, hi) == [lo |-> lo, hi |-> hi]

\* The array holding samples lo..lo+n-1 of a stream.
Samples(lo, n) == IF n = 0 THEN <<>> ELSE <<Run(lo, lo + n - 1)>>

RECURSIVE BufLen(_)
BufLen(b) ==
    IF b = <<>> THEN 0 ELSE (b[1].hi - b[1].lo + 1) + BufLen(Tail(b))

\* a followed by b.
Cat(a, b) ==
    IF a = <<>> THEN b
    ELSE IF b = <<>> THEN a
    ELSE IF a[Len(a)].hi + 1 = b[1].lo
         THEN SubSeq(a, 1, Len(a) - 1)
                \o <<Run(a[Len(a)].lo, b[1].hi)>>
                \o Tail(b)
         ELSE a \o b

\* b[n:] for 0 <= n <= len(b).
RECURSIVE Drop(_, _)
Drop(b, n) ==
    IF n = 0 \/ b = <<>> THEN b
    ELSE LET first == b[1].hi - b[1].lo + 1
         IN  IF n >= first THEN Drop(Tail(b), n - first)
             ELSE <<Run(b[1].lo + n, b[1].hi)>> \o Tail(b)

\* b[:n] for 0 <= n.
RECURSIVE Take(_, _)
Take(b, n) ==
    IF n = 0 \/ b = <<>> THEN <<>>
    ELSE LET first == b[1].hi - b[1].lo + 1
         IN  IF n >= first THEN Cat(<<b[1]>>, Take(Tail(b), n - first))
             ELSE <<Run(b[1].lo, b[1].lo + n - 1)>>

\* Python's normalisation of a slice start i for a sequence of length n.
PyStart(i, n) ==
    IF i < 0 THEN (IF n + i < 0 THEN 0 ELSE n + i)
    ELSE (IF i > n THEN n ELSE i)

\* np.concatenate(list): the arrays of the list, in list order.
RECURSIVE concatenate(_)
concatenate(list) ==
    IF list = <<>> THEN <<>>
    ELSE Cat(list[1], concatenate(Tail(list)))

---------------------------------------------------------------------------
(* The frame collector: class AudioProcessor *)

\* AudioProcessor.__init__: self.frames = []
AudioProcessor_init == <<>>

\* A collector that puts the newest chunk first: list.insert(0, audio).
list_insert_front(list, chunk) == <<chunk>> \o list

\* list.append(audio)
list_append(list, chunk) == Append(list, chunk)

\* recv, first statement: the device hands over a frame of len samples, the
\* next len samples of the stream, and recv converts them one for one into
\* the float array `audio`.
RecvConvert(len) ==
    /\ playing
    /\ recv_pc = "idle"
    /\ Len(frames) < MaxFrames
    /\ recv_audio' = Samples(delivered + 1, len)
    /\ delivered' = delivered + len
    /\ recv_pc' = "append"
    /\ recv_stale' = FALSE
    /\ UNCHANGED <<input_method, playing, audio_processor, frames, script_pc,
                   raw_audio, audio, shown_original, shown_cleaned, warning,
                   exception>>
    /\ UNCHANGED normVars

\* recv, second statement: self.frames.append(audio).  recv tests nothing
\* before appending.  A recv that was in flight when its processor was
\* replaced appends to the replaced object's list.
RecvAppend ==
    /\ recv_pc = "append"
    /\ frames' = IF recv_stale THEN frames ELSE list_append(frames, recv_audio)
    /\ recv_pc' = "idle"
    /\ recv_audio' = <<>>
    /\ recv_stale' = FALSE
    /\ UNCHANGED <<input_method, playing, audio_processor, delivered,
                   script_pc, raw_audio, audio, shown_original, shown_cleaned,
                   warning, exception>>
    /\ UNCHANGED normVars

---------------------------------------------------------------------------
(* The capture stream: webrtc_streamer(audio_processor_factory=AudioProcessor) *)

\* The user starts capture: the factory builds a new AudioProcessor.
Start ==
    /\ input_method = "mic"
    /\ ~playing
    /\ playing' = TRUE
    /\ audio_processor' = TRUE
    /\ frames' = AudioProcessor_init
    /\ delivered' = 0
    /\ recv_stale' = (recv_pc = "append")
    /\ UNCHANGED <<input_method, recv_pc, recv_audio, script_pc, raw_audio,
                   audio, shown_original, shown_cleaned, warning, exception>>
    /\ UNCHANGED normVars

\* The user stops capture.  The context may or may not still hold the
\* processor afterwards; the script tests both (line 176).
Stop ==
    /\ playing
    /\ playing' = FALSE
    /\ \E kept \in BOOLEAN : audio_processor' = kept
    /\ UNCHANGED <<input_method, frames, delivered, recv_pc, recv_audio,
                   recv_stale, script_pc, raw_audio, audio, shown_original,
                   shown_cleaned, warning, exception>>
    /\ UNCHANGED normVars

\* st.radio: the user picks the other input method.  Leaving the microphone
\* branch takes the streamer off the page, which ends capture.
SelectInput(m) ==
    /\ script_pc = "idle"
    /\ m # input_method
    /\ input_method' = m
    /\ playing' = FALSE
    /\ \E kept \in {audio_processor, FALSE} : audio_processor' = kept
    /\ UNCHANGED <<frames, delivered, recv_pc, recv_audio, recv_stale,
                   script_pc, raw_audio, audio, shown_original, shown_cleaned,
                   warning, exception>>
    /\ UNCHANGED normVars

---------------------------------------------------------------------------
(* The script: "Process Mic Recording", the upload branch, the cleaning run *)

NoAudio == "No audio data available."

TooShort == "Please record at least 2 seconds."

\* The test of line 176 without webrtc_ctx.state.playing.
MicReady_no_playing == audio_processor

\* line 176: webrtc_ctx and webrtc_ctx.state.playing and
\* webrtc_ctx.audio_processor
MicReady == playing /\ audio_processor

\* np.concatenate raises ValueError for an empty list of arrays.
concatenate_raises(list) == list = <<>>

\* line 178: len(raw_audio) < sr * 2
too_short(raw) == BufLen(raw) < sr * MinSeconds

\* The leading window raw_audio[:sr * 10].
leading_window(raw) == Take(raw, sr * WindowSeconds)

\* line 181: raw_audio[-sr * 10:]
trailing_window(raw) == Drop(raw, PyStart(-(sr * WindowSeconds), BufLen(raw)))

NoAudioRec == [samples |-> <<>>, stages |-> <<>>]

\* The button is pressed: lines 175-184, up to the call of
\* process_and_display.
PressProcess ==
    /\ input_method = "mic"
    /\ script_pc = "idle"
    /\ IF MicReady
       THEN IF concatenate_raises(frames)
            THEN /\ exception' = "ValueError"
                 /\ script_pc' = "crashed"
                 /\ UNCHANGED <<raw_audio, audio, warning>>
            ELSE LET raw == concatenate(frames)
                 IN  /\ raw_audio' = raw
                     /\ exception' = ""
                     /\ IF too_short(raw)
                        THEN /\ warning' = TooShort
                             /\ script_pc' = "done"
                             /\ UNCHANGED audio
                        ELSE /\ audio' = [samples |-> trailing_window(raw),
                                          stages |-> <<>>]
                             /\ script_pc' = "show_original"
                             /\ UNCHANGED warning
       ELSE /\ warning' = NoAudio
            /\ script_pc' = "done"
            /\ UNCHANGED <<raw_audio, audio, exception>>
    /\ UNCHANGED <<input_method, playing, audio_processor, frames, delivered,
                   recv_pc, recv_audio, recv_stale, shown_original,
                   shown_cleaned>>
    /\ UNCHANGED normVars

\* lines 159-163: a file of len samples is uploaded and decoded.
Upload(len) ==
    /\ input_method = "upload"
    /\ script_pc = "idle"
    /\ audio' = [samples |-> Samples(1, len), stages |-> <<>>]
    /\ script_pc' = "show_original"
    /\ UNCHANGED <<input_method, playing, audio_processor, frames, delivered,
                   recv_pc, recv_audio, recv_stale, raw_audio, shown_original,
                   shown_cleaned, warning, exception>>
    /\ UNCHANGED normVars

\* process_and_display, lines 133-137: the original is written and shown.
ShowOriginal ==
    /\ script_pc = "show_original"
    /\ shown_original' = <<audio>>
    /\ script_pc' = "clean"
    /\ UNCHANGED <<input_method, playing, audio_processor, frames, delivered,
                   recv_pc, recv_audio, recv_stale, raw_audio, audio,
                   shown_cleaned, warning, exception>>
    /\ UNCHANGED normVars

\* Lines 140-144 with the filter ahead of the denoiser.
StageOrder_filter_first ==
    <<"normalize_audio", "bandpass_filter", "reduce_noise", "amplify_audio",
      "normalize_audio">>

\* lines 140-144: the functions applied to `audio`, in statement order.
StageOrder ==
    <<"normalize_audio", "reduce_noise", "bandpass_filter", "amplify_audio",
      "normalize_audio">>

\* A stage returns an array of the same samples, processed once more.
apply_stage(stage, a) == [a EXCEPT !.stages = Append(@, stage)]

\* np.max of an empty array raises ValueError (normalize_audio, line 91).
stage_raises(stage, a) == stage = "normalize_audio" /\ a.samples = <<>>

\* One statement of lines 140-144: audio = stage(audio).
CleanStep ==
    /\ script_pc = "clean"
    /\ LET k == Len(audio.stages) + 1
           stage == StageOrder[k]
       IN  IF stage_raises(stage, audio)
           THEN /\ exception' = "ValueError"
                /\ script_pc' = "crashed"
                /\ UNCHANGED audio
           ELSE /\ audio' = apply_stage(stage, audio)
                /\ script_pc' = IF k = Len(StageOrder) THEN "show_cleaned"
                                                       ELSE "clean"
                /\ UNCHANGED exception
    /\ UNCHANGED <<input_method, playing, audio_processor, frames, delivered,
                   recv_pc, recv_audio, recv_stale, raw_audio, shown_original,
                   shown_cleaned, warning>>
    /\ UNCHANGED normVars

\* lines 147-156: the cleaned audio is written, shown and offered for download.
ShowCleaned ==
    /\ script_pc = "show_cleaned"
    /\ shown_cleaned' = <<audio>>
    /\ script_pc' = "done"
    /\ UNCHANGED <<input_method, playing, audio_processor, frames, delivered,
                   recv_pc, recv_audio, recv_stale, raw_audio, audio,
                   shown_original, warning, exception>>
    /\ UNCHANGED normVars

\* The script run is over; the next run starts with fresh locals and a fresh
\* page.
Rerun ==
    /\ script_pc \in {"done", "crashed"}
    /\ script_pc' = "idle"
    /\ raw_audio' = <<>>
    /\ audio' = NoAudioRec
    /\ shown_original' = <<>>
    /\ shown_cleaned' = <<>>
    /\ warning' = ""
    /\ exception' = ""
    /\ UNCHANGED <<input_method, playing, audio_processor, frames, delivered,
                   recv_pc, recv_audio, recv_stale>>
    /\ UNCHANGED normVars

---------------------------------------------------------------------------
(* The specification of the application *)

MicInit ==
    /\ input_method = "mic"
    /\ playing = FALSE
    /\ audio_processor = FALSE
    /\ frames = <<>>
    /\ delivered = 0
    /\ recv_pc = "idle"
    /\ recv_audio = <<>>
    /\ recv_stale = FALSE
    /\ script_pc = "idle"
    /\ raw_audio = <<>>
    /\ audio = NoAudioRec
    /\ shown_original = <<>>
    /\ shown_cleaned = <<>>
    /\ warning = ""
    /\ exception = ""

NormIdle ==
    /\ n_in = <<>>
    /\ n_out = [raised |-> FALSE, value |-> <<>>]
    /\ n_again = [raised |-> FALSE, value |-> <<>>]
    /\ n_pc = "idle"

Init == MicInit /\ NormIdle

Next ==
    \/ \E len \in ChunkLens : RecvConvert(len)
    \/ RecvAppend
    \/ Start
    \/ Stop
    \/ \E m \in {"mic", "upload"} : SelectInput(m)
    \/ PressProcess
    \/ \E len \in UploadLens : Upload(len)
    \/ ShowOriginal
    \/ CleanStep
    \/ ShowCleaned
    \/ Rerun

Spec == Init /\ [][Next]_vars

---------------------------------------------------------------------------
(* normalize_audio on sample values.  A sample value is an exact fraction  *)
(* [n, d] in lowest terms with d > 0.  The program computes in binary      *)
(* floating point, where the largest magnitude maps to the rounded 0.9     *)
(* exactly (m / m = 1) and where, for binary32, dividing a product q * 0.9 *)
(* by 0.9 and multiplying again returns the same product for every         *)
(* significand q, so exact fractions give the same verdicts on equality.   *)

RECURSIVE GCD(_, _)
GCD(a, b) == IF b = 0 THEN a ELSE GCD(b, a % b)

Abs(x) == IF x < 0 THEN -x ELSE x

Rat(n, d) ==
    LET g == GCD(Abs(n), Abs(d))
        s == IF d < 0 THEN -1 ELSE 1
    IN  [n |-> (s * n) \div g, d |-> (s * d) \div g]

Zero == Rat(0, 1)

RatAbs(x) == [n |-> Abs(x.n), d |-> x.d]

RatLeq(x, y) == x.n * y.d <= y.n * x.d

RatMul(x, y) == Rat(x.n * y.n, x.d * y.d)

\* x / y for y # 0.
RatDiv(x, y) == Rat(x.n * y.d, x.d * y.n)

\* The 0.9 of line 92.
target == Rat(9, 10)

\* np.max(a) of a non-empty array.
np_max(a) == CHOOSE m \in {a[i] : i \in DOMAIN a} :
                 \A i \in DOMAIN a : RatLeq(a[i], m)

\* np.abs(a)
np_abs(a) == [i \in DOMAIN a |-> RatAbs(a[i])]

\* normalize_audio with np.max(audio) in place of np.max(np.abs(audio)).
normalize_audio_no_abs(a) ==
    IF a = <<>>
    THEN [raised |-> TRUE, value |-> <<>>]
    ELSE LET max_val == np_max(a)
         IN  [raised |-> FALSE,
              value  |-> IF max_val = Zero
                         THEN a
                         ELSE [i \in DOMAIN a |->
                                  RatMul(RatDiv(a[i], max_val), target)]]

\* normalize_audio(audio), lines 90-92.  np.max raises ValueError for an
\* array without elements.
normalize_audio(a) ==
    IF a = <<>>
    THEN [raised |-> TRUE, value |-> <<>>]
    ELSE LET max_val == np_max(np_abs(a))
         IN  [raised |-> FALSE,
              value  |-> IF max_val = Zero
                         THEN a
                         ELSE [i \in DOMAIN a |->
                                  RatMul(RatDiv(a[i], max_val), target)]]

SampleValues ==
    {Rat(0, 1), Rat(1, 4), Rat(-1, 2), Rat(3, 4), Rat(1, 1), Rat(-1, 1),
     Rat(1, 3), Rat(-128, 125)}

\* The buffers normalize_audio is applied to: up to MaxLen samples.
NormInputs == UNION {[1..k -> SampleValues] : k \in 0..MaxLen}

NoResult == [raised |-> FALSE, value |-> <<>>]

NormInit ==
    /\ n_in \in NormInputs
    /\ n_out = NoResult
    /\ n_again = NoResult
    /\ n_pc = "in"

\* audio = normalize_audio(audio)
NormApply ==
    /\ n_pc = "in"
    /\ n_out' = normalize_audio(n_in)
    /\ n_pc' = "once"
    /\ UNCHANGED <<n_in, n_again>>
    /\ UNCHANGED micVars

\* normalize_audio applied to the result of normalize_audio.
NormAgain ==
    /\ n_pc = "once"
    /\ ~n_out.raised
    /\ n_again' = normalize_audio(n_out.value)
    /\ n_pc' = "twice"
    /\ UNCHANGED <<n_in, n_out>>
    /\ UNCHANGED micVars

NormNext == NormApply \/ NormAgain

InitNorm == MicInit /\ NormInit

SpecNorm == InitNorm /\ [][NormNext]_vars

---------------------------------------------------------------------------
(* Vocabulary of the properties *)

\* Number of samples accumulated in a list of chunks.
RECURSIVE Total(_)
Total(list) == IF list = <<>> THEN 0 ELSE BufLen(list[1]) + Total(Tail(list))

\* The last k samples of b, counted from the end of b (k <= len(b)).
RECURSIVE LastSamples(_, _)
LastSamples(b, k) ==
    IF k = 0 \/ b = <<>> THEN <<>>
    ELSE LET r == b[Len(b)]
             n == r.hi - r.lo + 1
         IN  IF k > n
             THEN Cat(LastSamples(SubSeq(b, 1, Len(b) - 1), k - n), <<r>>)
             ELSE <<Run(r.hi - k + 1, r.hi)>>

LargestChunk == CHOOSE c \in ChunkLens : \A d \in ChunkLens : d <= c

IsPrefix(p, q) == Len(p) <= Len(q) /\ p = SubSeq(q, 1, Len(p))

\* The step in which the process button is pressed on the microphone page.
PressEvent == input_method = "mic" /\ script_pc = "idle" /\ script_pc' # "idle"

\* The script has read a snapshot of the collector in this run.
SnapshotTaken == input_method = "mic" /\ script_pc # "idle" /\ raw_audio # <<>>

CleaningOrder ==
    <<"normalize_audio", "reduce_noise", "bandpass_filter", "amplify_audio",
      "normalize_audio">>

AllZero(b) == \A i \in DOMAIN b : b[i].n = 0

PeakIs(b, t) ==
    /\ \E i \in DOMAIN b : RatAbs(b[i]) = t
    /\ \A i \in DOMAIN b : RatLeq(RatAbs(b[i]), t)

Peak(b) == CHOOSE t \in {RatAbs(b[i]) : i \in DOMAIN b} : PeakIs(b, t)

\* Every sample of b times target / max|sample|.
Scaled(b) == [i \in DOMAIN b |-> RatMul(b[i], RatDiv(target, Peak(b)))]

NormalizeContract(in, out) ==
    /\ ~out.raised
    /\ AllZero(in) => out.value = in
    /\ ~AllZero(in) => PeakIs(out.value, target) /\ out.value = Scaled(in)

---------------------------------------------------------------------------
(* Properties *)

\* C1: whenever the button is pressed while capture is live, whatever the
\* capture thread has done so far, the snapshot does not crash and reads
\* whole chunks only: every chunk in the list is a complete frame and the
\* snapshot is exactly the samples of all of them.
C1_SnapshotConsistent ==
    [][(PressEvent /\ playing /\ audio_processor)
         => /\ exception' = ""
            /\ script_pc' # "crashed"
            /\ \A i \in 1..Len(frames) : BufLen(frames[i]) \in ChunkLens
            /\ BufLen(raw_audio') = Total(frames)]_vars

\* C2: a snapshot requested with fewer than MinSeconds * sr accumulated
\* samples ends with the insufficient-duration warning, produces no audio
\* buffer and runs no stage.
C2_InsufficientDuration ==
    [][(PressEvent /\ playing /\ audio_processor
          /\ Total(frames) < MinSeconds * sr)
         => /\ script_pc' = "done"
            /\ warning' = TooShort
            /\ exception' = ""
            /\ audio' = NoAudioRec
            /\ shown_original' = <<>>]_vars

\* C3: a snapshot requested with zero accumulated chunks is reported as a
\* warning to the user, without a crash and without running a stage.
C3_NoCaptureDataReported ==
    [][(PressEvent /\ frames = <<>>)
         => /\ script_pc' = "done"
            /\ warning' # ""
            /\ exception' = ""
            /\ audio' = NoAudioRec
            /\ shown_original' = <<>>]_vars

\* C4: once the accumulated total is at least MinSeconds * sr, the snapshot
\* is exactly the last min(total, WindowSeconds * sr) samples of the
\* concatenated history: all of it when it fits the window, else exactly
\* WindowSeconds * sr samples, the trailing slice.
C4_TrailingWindow ==
    (SnapshotTaken /\ BufLen(raw_audio) >= MinSeconds * sr)
      => LET total == BufLen(raw_audio)
             keep == Min(total, WindowSeconds * sr)
         IN  /\ warning = ""
             /\ exception = ""
             /\ BufLen(audio.samples) = keep
             /\ audio.samples = LastSamples(raw_audio, keep)
             /\ total <= WindowSeconds * sr => audio.samples = raw_audio
             /\ total > WindowSeconds * sr
                  => BufLen(audio.samples) = WindowSeconds * sr

\* C4 witness: a run whose history exceeded the window was cleaned, and the
\* snapshot starts after the first sample.
C4_Witness ==
    /\ SnapshotTaken
    /\ BufLen(raw_audio) > WindowSeconds * sr
    /\ script_pc = "done"
    /\ shown_cleaned # <<>>
    /\ audio.samples[1].lo > 1

\* C5: the chunks of the collector are the frames of the stream in delivery
\* order, each directly after the one before it, and a snapshot reads the
\* samples 1..total of the stream in stream order: nothing reordered,
\* duplicated or dropped.
C5_AppendOrder ==
    /\ \A i \in 1..Len(frames) :
          /\ Len(frames[i]) = 1
          /\ frames[i][1].lo = IF i = 1 THEN 1 ELSE frames[i - 1][1].hi + 1
    /\ SnapshotTaken => raw_audio = Samples(1, BufLen(raw_audio))

\* C5 witness: a snapshot of three or more chunks has been read.
C5_Witness ==
    /\ SnapshotTaken
    /\ Len(frames) >= 3
    /\ BufLen(raw_audio) = Total(frames)

\* C6: in every reachable state the retained history is at most
\* WindowSeconds * sr samples plus one chunk.
C6_RetentionBound == Total(frames) <= WindowSeconds * sr + LargestChunk

\* C7: while capture is stopped the accumulated history never grows, and
\* the step that starts a capture session leaves an empty history.
C7_NoAdmissionAfterStop ==
    [][/\ (~playing /\ ~playing') => Total(frames') <= Total(frames)
       /\ (~playing /\ playing') => frames' = <<>>]_vars

\* C8: the stages applied to the audio of a run are always an initial part
\* of normalize, denoise, bandpass, amplify, normalize, each applied to the
\* result of the one before; the cleaned output exists only with all five
\* applied, to the very samples shown as the original; the original is shown
\* with no stage applied; a run that ends without warning has shown the
\* cleaned output.
C8_StageOrder ==
    /\ IsPrefix(audio.stages, CleaningOrder)
    /\ script_pc = "clean" => Len(audio.stages) < Len(CleaningOrder)
    /\ script_pc = "show_cleaned" => audio.stages = CleaningOrder
    /\ shown_original # <<>>
         => /\ shown_original[1].stages = <<>>
            /\ shown_original[1].samples = audio.samples
    /\ shown_cleaned # <<>>
         => /\ shown_original # <<>>
            /\ shown_cleaned[1] = [samples |-> shown_original[1].samples,
                                   stages  |-> CleaningOrder]
    /\ (script_pc = "done" /\ warning = "") => shown_cleaned # <<>>

\* C8 witness: an upload run has shown its cleaned output.
C8_Witness ==
    /\ input_method = "upload"
    /\ script_pc = "done"
    /\ shown_cleaned # <<>>
    /\ shown_cleaned[1].samples # <<>>

\* C9 as stated: for every buffer, normalize_audio returns the input when
\* all samples are zero, else the input scaled by target / max|sample| with
\* peak exactly target; applying it again changes nothing.
C9_NormalizeEveryBuffer ==
    /\ n_pc \in {"once", "twice"} => NormalizeContract(n_in, n_out)
    /\ n_pc = "twice" => n_again = n_out

\* C9 amended: the same for every buffer that holds at least one sample.
C9_NormalizeNonEmpty ==
    n_in # <<>> => C9_NormalizeEveryBuffer

\* C9 witness: a two-sample buffer that is not silent was normalized twice
\* and the first pass changed it.
C9_Witness ==
    /\ n_pc = "twice"
    /\ Len(n_in) = 2
    /\ ~AllZero(n_in)
    /\ n_out.value # n_in

\* C10: a press reaches the snapshot only with capture playing and a
\* processor present; any other press ends at once with the "No audio data
\* available." warning, having read no frames and run no stage, and that
\* warning is only ever shown by such a run.
C10_PressGuard ==
    /\ [](warning = NoAudio
            => /\ script_pc = "done"
               /\ raw_audio = <<>>
               /\ audio = NoAudioRec
               /\ shown_original = <<>>
               /\ shown_cleaned = <<>>
               /\ exception = "")
    /\ [][PressEvent
            => IF playing /\ audio_processor
               THEN warning' # NoAudio
               ELSE /\ warning' = NoAudio
                    /\ script_pc' = "done"
                    /\ raw_audio' = <<>>
                    /\ audio' = NoAudioRec]_vars

\* C10 witness: capture was stopped with chunks accumulated, and the press
\* gave the warning.
C10_Witness ==
    /\ input_method = "mic"
    /\ ~playing
    /\ frames # <<>>
    /\ warning = NoAudio
    /\ script_pc = "done"

===========================================================================
